---- MODULE Spec2Model ----
(***************************************************************************)
(* olm-catalog-browser (src/main.rs): a catalog file is read, its YAML     *)
(* documents are decoded one by one into CatalogEntry values, the entries  *)
(* are grouped into three HashMaps and one list/show query is answered.    *)
(*                                                                         *)
(* Text written to stdout is a sequence of tokens: the literal pieces of   *)
(* the format strings and the values substituted into them, in the order   *)
(* they are written; println! ends with the token "\n".                    *)
(***************************************************************************)
EXTENDS Naturals, Sequences, FiniteSets, TLC

VARIABLES
    cli,         \* Option of the parsed command [command, content_type, name]:
                 \* None until main matches on it
    pc,          \* position in main: read, decode, group, done, panicked
    readResult,  \* fs::read_to_string: "pending", "Ok" or "Err"
    content,     \* the documents of the file, in stream order
    di,          \* number of documents the deserializer iterator has yielded
    entries,     \* Vec<CatalogEntry> collected so far
    stderr,      \* diagnostics written to the error stream
    gi,          \* number of entries the grouping loop has consumed
    packages,    \* HashMap<String, CatalogEntry>
    channels,    \* HashMap<String, Vec<CatalogEntry>>
    bundles,     \* HashMap<String, Vec<CatalogEntry>>
    seed,        \* the hasher state of the maps, as the key order it induces
    stdout,      \* tokens written to standard output by the first handler call
    calls,       \* number of handler calls made
    out2,        \* tokens written by a second call of the handler (SpecTwice)
    exit         \* Option of the process exit status: None while running

vars == <<cli, pc, readResult, content, di, entries, stderr, gi,
          packages, channels, bundles, seed, stdout, calls, out2, exit>>

(***************************************************************************)
(* Bounds of the model.                                                    *)
(***************************************************************************)
MaxDocs == 3

Names == {"a", "b"}

(***************************************************************************)
(* Sequence helpers.                                                       *)
(***************************************************************************)
RECURSIVE Flatten(_)
Flatten(ss) == IF ss = <<>> THEN <<>> ELSE Head(ss) \o Flatten(Tail(ss))

Range(s) == {s[i] : i \in 1..Len(s)}

(***************************************************************************)
(* YAML values of a document: scalars, sequences and mappings (a mapping   *)
(* is a function from its keys to values).                                 *)
(***************************************************************************)
YStr(s) == [t |-> "str", s |-> s]
YSeq(q) == [t |-> "seq", q |-> q]
YMap(m) == [t |-> "map", m |-> m]

Ok(v) == [ok |-> TRUE, v |-> v]
Err(e) == [ok |-> FALSE, err |-> e]

\* Option<String>
None == [some |-> FALSE]
Some(v) == [some |-> TRUE, v |-> v]

\* A required String field of a mapping.
StringField(m, f) ==
    IF f \notin DOMAIN m THEN Err(<<"missing field", f>>)
    ELSE IF m[f].t # "str" THEN Err(<<"invalid type", f>>)
    ELSE Ok(m[f].s)

\* Package { name }
DeserializePackage(m) ==
    LET name == StringField(m, "name") IN
    IF ~name.ok THEN name
    ELSE Ok([variant |-> "OlmPackage", name |-> name.v])

\* ChannelEntry { name, #[serde(default)] replaces, #[serde(default)] skips,
\*                #[serde(rename = "SkipRange")] skip_range: Option<String> }
DeserializeChannelEntry(y) ==
    IF y.t # "map" THEN Err(<<"invalid type", "entries">>)
    ELSE
    LET m == y.m
        name == StringField(m, "name")
        replaces == IF "replaces" \in DOMAIN m THEN StringField(m, "replaces") ELSE Ok("")
        skipsOk == "skips" \notin DOMAIN m
                   \/ (m["skips"].t = "seq" /\ \A i \in 1..Len(m["skips"].q) : m["skips"].q[i].t = "str")
        skips == IF "skips" \in DOMAIN m /\ skipsOk
                 THEN [i \in 1..Len(m["skips"].q) |-> m["skips"].q[i].s]
                 ELSE <<>>
        range == IF "SkipRange" \in DOMAIN m THEN StringField(m, "SkipRange") ELSE Ok("")
    IN
    IF ~name.ok THEN name
    ELSE IF ~replaces.ok THEN replaces
    ELSE IF ~skipsOk THEN Err(<<"invalid type", "skips">>)
    ELSE IF ~range.ok THEN range
    ELSE Ok([name |-> name.v, replaces |-> replaces.v, skips |-> skips,
             skip_range |-> IF "SkipRange" \in DOMAIN m THEN Some(range.v) ELSE None])

\* Channel { name, package, entries }
DeserializeChannel(m) ==
    LET name == StringField(m, "name")
        package == StringField(m, "package")
        items == IF "entries" \in DOMAIN m /\ m["entries"].t = "seq"
                 THEN [i \in 1..Len(m["entries"].q) |->
                          DeserializeChannelEntry(m["entries"].q[i])]
                 ELSE <<>>
    IN
    IF ~name.ok THEN name
    ELSE IF ~package.ok THEN package
    ELSE IF "entries" \notin DOMAIN m THEN Err(<<"missing field", "entries">>)
    ELSE IF m["entries"].t # "seq" THEN Err(<<"invalid type", "entries">>)
    ELSE IF \E i \in 1..Len(items) : ~items[i].ok
         THEN items[CHOOSE i \in 1..Len(items) :
                        ~items[i].ok /\ \A j \in 1..(i - 1) : items[j].ok]
    ELSE Ok([variant |-> "OpmChannel", name |-> name.v, package |-> package.v,
             entries |-> [i \in 1..Len(items) |-> items[i].v]])

\* Bundle { name, image, package }
DeserializeBundle(m) ==
    LET name == StringField(m, "name")
        image == StringField(m, "image")
        package == StringField(m, "package")
    IN
    IF ~name.ok THEN name
    ELSE IF ~image.ok THEN image
    ELSE IF ~package.ok THEN package
    ELSE Ok([variant |-> "OlmBundle", name |-> name.v, image |-> image.v,
             package |-> package.v])

\* #[serde(tag = "schema")] enum CatalogEntry: the tag selects the variant,
\* the rest of the mapping is decoded as that variant's struct.
Deserialize(doc) ==
    LET tag == StringField(doc, "schema") IN
    IF ~tag.ok THEN tag
    ELSE IF tag.v = "olm.package" THEN DeserializePackage(doc)
    ELSE IF tag.v = "olm.channel" THEN DeserializeChannel(doc)
    ELSE IF tag.v = "olm.bundle" THEN DeserializeBundle(doc)
    ELSE Err(<<"unknown variant", tag.v>>)

(***************************************************************************)
(* The documents the file may hold.                                        *)
(***************************************************************************)
PackageDoc(n) == [schema |-> YStr("olm.package"), name |-> YStr(n)]

ChannelDoc(n, p, es) ==
    [schema |-> YStr("olm.channel"), name |-> YStr(n), package |-> YStr(p),
     entries |-> YSeq(es)]

BundleDoc(n, p) ==
    [schema |-> YStr("olm.bundle"), name |-> YStr(n), image |-> YStr("quay.io/img"),
     package |-> YStr(p)]

PlainEntry == YMap([name |-> YStr("v1")])

FullEntry ==
    YMap([name |-> YStr("v2"), replaces |-> YStr("v1"),
          skips |-> YSeq(<<YStr("v0"), YStr("v1")>>), SkipRange |-> YStr(">=0 <2")])

GoodDocs ==
    {PackageDoc(n) : n \in Names}
    \cup {ChannelDoc("a", "a", <<PlainEntry>>), ChannelDoc("b", "a", <<FullEntry, PlainEntry>>),
          ChannelDoc("b", "b", <<>>)}
    \cup {BundleDoc("a", "a"), BundleDoc("b", "a"), BundleDoc("a", "b")}

BadDocs ==
    { [schema |-> YStr("olm.unknown"), name |-> YStr("a")],     \* unknown schema tag
      [schema |-> YStr("olm.bundle"), name |-> YStr("a"), package |-> YStr("a")], \* no image
      [schema |-> YStr("olm.channel"), name |-> YStr("a"), package |-> YStr("a"),
       entries |-> YStr("v1")] }                                \* entries is not a list

Docs == GoodDocs \cup BadDocs

Contents == UNION {[1..n -> Docs] : n \in 0..MaxDocs}

(***************************************************************************)
(* The command line, as clap parsed it.                                    *)
(***************************************************************************)
ContentType == {"Packages", "Channels", "Bundles", "Package", "Channel", "Bundle"}

Commands ==
    {[command |-> "List", content_type |-> ct, name |-> ""] : ct \in ContentType}
    \cup {[command |-> "Show", content_type |-> ct, name |-> n] : ct \in ContentType, n \in Names}

\* Exit statuses: main returning Ok(()) and a panic of the main thread.
ExitSuccess == 0
ExitPanic == 101

EmptyMap == [k \in {} |-> <<>>]

Init ==
    /\ cli = None
    /\ pc = "read"
    /\ readResult = "pending"
    /\ content = <<>>
    /\ di = 0
    /\ entries = <<>>
    /\ stderr = <<>>
    /\ gi = 0
    /\ packages = EmptyMap
    /\ channels = EmptyMap
    /\ bundles = EmptyMap
    /\ seed = <<>>
    /\ stdout = <<>>
    /\ calls = 0
    /\ out2 = <<>>
    /\ exit = None

\* fs::read_to_string(cli.file) returned the file's text.
ReadFile ==
    /\ pc = "read"
    /\ \E docs \in Contents : content' = docs
    /\ readResult' = "Ok"
    /\ pc' = "decode"
    /\ UNCHANGED <<cli, di, entries, stderr, gi, packages, channels, bundles, seed,
                   stdout, calls, out2, exit>>

\* Mutant: the read error is swallowed (unwrap_or_default) and main goes on.
ReadFail_Swallowed ==
    /\ pc = "read"
    /\ readResult' = "Err"
    /\ content' = <<>>
    /\ pc' = "decode"
    /\ UNCHANGED <<cli, di, entries, stderr, gi, packages, channels, bundles, seed,
                   stdout, calls, out2, exit>>

\* fs::read_to_string(cli.file) failed: expect() panics.
ReadFail ==
    /\ pc = "read"
    /\ readResult' = "Err"
    /\ stderr' = Append(stderr, <<"Failed to read the file">>)
    /\ pc' = "panicked"
    /\ exit' = Some(ExitPanic)
    /\ UNCHANGED <<cli, content, di, entries, gi, packages, channels, bundles, seed,
                   stdout, calls, out2>>

\* Mutant: the first document that fails to decode ends the iteration.
DecodeDocument_StopAtError ==
    /\ pc = "decode"
    /\ di < Len(content)
    /\ LET r == Deserialize(content[di + 1]) IN
       IF r.ok
       THEN /\ entries' = Append(entries, r.v @@ [doc |-> di + 1])
            /\ stderr' = stderr
            /\ di' = di + 1
       ELSE /\ entries' = entries
            /\ stderr' = Append(stderr, <<"Failed to deserialize a document: ", r.err>>)
            /\ di' = Len(content)
    /\ UNCHANGED <<cli, pc, readResult, content, gi, packages, channels, bundles, seed,
                   stdout, calls, out2, exit>>

\* One step of the filter_map over the documents of the stream.  The entry
\* carries, as `doc`, the position of the document it was decoded from; it
\* is no field of the Rust value and is never printed.
DecodeDocument ==
    /\ pc = "decode"
    /\ di < Len(content)
    /\ LET r == Deserialize(content[di + 1]) IN
       IF r.ok
       THEN /\ entries' = Append(entries, r.v @@ [doc |-> di + 1])
            /\ stderr' = stderr
       ELSE /\ entries' = entries
            /\ stderr' = Append(stderr, <<"Failed to deserialize a document: ", r.err>>)
    /\ di' = di + 1
    /\ UNCHANGED <<cli, pc, readResult, content, gi, packages, channels, bundles, seed,
                   stdout, calls, out2, exit>>

(***************************************************************************)
(* HashMap.  A map is a function from its keys.  Iteration visits the keys *)
(* in an order fixed by the hasher: RandomState takes its keys from one    *)
(* random per-thread value, drawn when the first map is made, so the seed  *)
(* is one choice per run; it is kept as the order it induces on the key    *)
(* universe.  Every run iterates at most one of the three maps.            *)
(***************************************************************************)
Seeds == {s \in [1..Cardinality(Names) -> Names] : Range(s) = Names}

Keys(m) == SelectSeq(seed, LAMBDA k : k \in DOMAIN m)

Values(m) == [i \in 1..Len(Keys(m)) |-> m[Keys(m)[i]]]

Get(m, k) == IF k \in DOMAIN m THEN Some(m[k]) ELSE None

\* Mutant: the first value of a key is kept (entry(key).or_insert(value)).
Insert_KeepFirst(m, key, value) ==
    [k \in DOMAIN m \cup {key} |-> IF k \in DOMAIN m THEN m[k] ELSE value]

\* packages.insert(key, value)
Insert(m, key, value) ==
    [k \in DOMAIN m \cup {key} |-> IF k = key THEN value ELSE m[k]]

\* Mutant: the key's Vec is replaced (insert(key, vec![value])).
EntryOrDefaultPush_Replace(m, key, value) ==
    [k \in DOMAIN m \cup {key} |-> IF k = key THEN <<value>> ELSE m[k]]

\* map.entry(key).or_default().push(value)
EntryOrDefaultPush(m, key, value) ==
    [k \in DOMAIN m \cup {key} |->
        IF k = key THEN Append(IF key \in DOMAIN m THEN m[key] ELSE <<>>, value)
        ELSE m[k]]

\* The deserializer iterator is exhausted: collect() returns the Vec and the
\* three maps are created.
Collect ==
    /\ pc = "decode"
    /\ di = Len(content)
    /\ packages' = EmptyMap
    /\ channels' = EmptyMap
    /\ bundles' = EmptyMap
    /\ seed' \in Seeds
    /\ gi' = 0
    /\ pc' = "group"
    /\ UNCHANGED <<cli, readResult, content, di, entries, stderr, stdout, calls, out2, exit>>

\* Mutant: the bundle arm pushes into `channels` (a copied arm left unedited).
GroupEntry_BundleIntoChannels ==
    /\ pc = "group"
    /\ gi < Len(entries)
    /\ LET entry == entries[gi + 1] IN
       CASE entry.variant = "OlmPackage" ->
              /\ packages' = [k \in DOMAIN packages \cup {entry.name} |->
                                 IF k = entry.name THEN entry ELSE packages[k]]
              /\ UNCHANGED <<channels, bundles>>
         [] OTHER ->
              /\ channels' = [k \in DOMAIN channels \cup {entry.package} |->
                                 IF k = entry.package
                                 THEN Append(IF k \in DOMAIN channels THEN channels[k]
                                             ELSE <<>>, entry)
                                 ELSE channels[k]]
              /\ UNCHANGED <<packages, bundles>>
    /\ gi' = gi + 1
    /\ UNCHANGED <<cli, pc, readResult, content, di, entries, stderr, seed, stdout,
                   calls, out2, exit>>

\* One iteration of `for entry in entries`.
GroupEntry ==
    /\ pc = "group"
    /\ gi < Len(entries)
    /\ LET entry == entries[gi + 1] IN
       CASE entry.variant = "OlmPackage" ->
              /\ packages' = Insert(packages, entry.name, entry)
              /\ UNCHANGED <<channels, bundles>>
         [] entry.variant = "OpmChannel" ->
              /\ channels' = EntryOrDefaultPush(channels, entry.package, entry)
              /\ UNCHANGED <<packages, bundles>>
         [] entry.variant = "OlmBundle" ->
              /\ bundles' = EntryOrDefaultPush(bundles, entry.package, entry)
              /\ UNCHANGED <<packages, channels>>
    /\ gi' = gi + 1
    /\ UNCHANGED <<cli, pc, readResult, content, di, entries, stderr, seed, stdout,
                   calls, out2, exit>>

(***************************************************************************)
(* Formatting.                                                             *)
(***************************************************************************)
Println(tokens) == tokens \o <<"\n">>

\* {:?} of a String (the names of the model need no escaping)
DebugString(s) == <<"\"", s, "\"">>

\* {:?} of a Vec<String>
DebugVec(v) ==
    <<"[">>
    \o Flatten([i \in 1..Len(v) |-> (IF i > 1 THEN <<", ">> ELSE <<>>) \o DebugString(v[i])])
    \o <<"]">>

\* impl Display for Channel: the part written for one entry
FmtChannelEntry(entry) ==
    <<"\n    - ", entry.name>>
    \o (IF entry.replaces # "" THEN <<"\n      replaces: ", entry.replaces>> ELSE <<>>)
    \o (IF Len(entry.skips) > 0 THEN <<"\n      skips: ">> \o DebugVec(entry.skips) ELSE <<>>)
    \o (IF entry.skip_range.some THEN <<"\n      skip_range: ", entry.skip_range.v>> ELSE <<>>)

\* impl Display for Channel
FmtChannel(channel) ==
    <<"Channel: ", channel.name, "\n  Package: ", channel.package, "\n  Entries:">>
    \o Flatten([i \in 1..Len(channel.entries) |-> FmtChannelEntry(channel.entries[i])])

\* {:#?} of a Package
DebugPackage(pkg) ==
    <<"Package {\n    name: ">> \o DebugString(pkg.name) \o <<",\n}">>

\* {:#?} of a Bundle
DebugBundle(bundle) ==
    <<"Bundle {\n    name: ">> \o DebugString(bundle.name)
    \o <<",\n    image: ">> \o DebugString(bundle.image)
    \o <<",\n    package: ">> \o DebugString(bundle.package) \o <<",\n}">>

(***************************************************************************)
(* The query handlers: the tokens each writes to stdout.                   *)
(***************************************************************************)
\* for entry in entries { if let CatalogEntry::OpmChannel(channel) = entry
\*                            { println!("- {}", channel.name) } }
ListChannels(es) ==
    Flatten([i \in 1..Len(es) |->
                IF es[i].variant = "OpmChannel" THEN Println(<<"- ", es[i].name>>) ELSE <<>>])

\* for bundle in entries { if let CatalogEntry::OlmBundle(bundle) = bundle
\*                            { println!("- {}", bundle.name) } }
ListBundles(es) ==
    Flatten([i \in 1..Len(es) |->
                IF es[i].variant = "OlmBundle" THEN Println(<<"- ", es[i].name>>) ELSE <<>>])

\* if let CatalogEntry::OlmPackage(pkg) = entry { println!("{:#?}", pkg) }
ShowPackage(entry) ==
    IF entry.variant = "OlmPackage" THEN Println(DebugPackage(entry)) ELSE <<>>

\* for entry in entries { if let CatalogEntry::OpmChannel(channel) = entry
\*                            { println!("{}", channel) } }
ShowChannels(es) ==
    Flatten([i \in 1..Len(es) |->
                IF es[i].variant = "OpmChannel" THEN Println(FmtChannel(es[i])) ELSE <<>>])

\* for entry in entries { if let CatalogEntry::OlmBundle(bundle) = entry
\*                            { println!("{:#?}", bundle) } }
ShowBundles(es) ==
    Flatten([i \in 1..Len(es) |->
                IF es[i].variant = "OlmBundle" THEN Println(DebugBundle(es[i])) ELSE <<>>])

\* Mutant: the singular content types are taken as aliases of the plural ones.
list_handler_SingularAlias(content_type, pkgs, chans, bunds) ==
    CASE content_type \in {"Packages", "Package"} ->
           Println(<<"Packages:">>)
           \o Flatten([i \in 1..Len(Keys(pkgs)) |-> Println(<<"- ", Keys(pkgs)[i]>>)])
      [] content_type \in {"Channels", "Channel"} ->
           Println(<<"Channels:">>)
           \o Flatten([i \in 1..Len(Values(chans)) |->
                          ListChannels(Values(chans)[i])])
      [] content_type \in {"Bundles", "Bundle"} ->
           Println(<<"Bundles:">>)
           \o Flatten([i \in 1..Len(Values(bunds)) |->
                          ListBundles(Values(bunds)[i])])
      [] OTHER -> Println(<<"Unsupported content type">>)

\* Mutant: only the first entry of each package's Vec is listed.
list_handler_FirstOnly(content_type, pkgs, chans, bunds) ==
    CASE content_type = "Packages" ->
           Println(<<"Packages:">>)
           \o Flatten([i \in 1..Len(Keys(pkgs)) |-> Println(<<"- ", Keys(pkgs)[i]>>)])
      [] content_type = "Channels" ->
           Println(<<"Channels:">>)
           \o Flatten([i \in 1..Len(Values(chans)) |->
                          ListChannels(SubSeq(Values(chans)[i], 1, 1))])
      [] content_type = "Bundles" ->
           Println(<<"Bundles:">>)
           \o Flatten([i \in 1..Len(Values(bunds)) |->
                          ListBundles(SubSeq(Values(bunds)[i], 1, 1))])
      [] OTHER -> Println(<<"Unsupported content type">>)

list_handler(content_type, pkgs, chans, bunds) ==
    CASE content_type = "Packages" ->
           Println(<<"Packages:">>)
           \o Flatten([i \in 1..Len(Keys(pkgs)) |-> Println(<<"- ", Keys(pkgs)[i]>>)])
      [] content_type = "Channels" ->
           Println(<<"Channels:">>)
           \o Flatten([i \in 1..Len(Values(chans)) |->
                          ListChannels(Values(chans)[i])])
      [] content_type = "Bundles" ->
           Println(<<"Bundles:">>)
           \o Flatten([i \in 1..Len(Values(bunds)) |->
                          ListBundles(Values(bunds)[i])])
      [] OTHER -> Println(<<"Unsupported content type">>)

\* Mutant: Channel and Bundle are looked up by their own name, in every Vec.
show_handler_ByOwnName(content_type, name, pkgs, chans, bunds) ==
    CASE content_type = "Package" ->
           IF Get(pkgs, name).some
           THEN ShowPackage(Get(pkgs, name).v)
           ELSE <<>>
      [] content_type = "Channel" ->
           ShowChannels(SelectSeq(Flatten(Values(chans)), LAMBDA e : e.name = name))
      [] content_type = "Bundle" ->
           ShowBundles(SelectSeq(Flatten(Values(bunds)), LAMBDA e : e.name = name))
      [] OTHER -> Println(<<"Unsupported content type">>)

\* Mutant: a key that is not in the map is reported.
show_handler_NotFound(content_type, name, pkgs, chans, bunds) ==
    CASE content_type = "Package" ->
           IF Get(pkgs, name).some
           THEN ShowPackage(Get(pkgs, name).v)
           ELSE Println(<<"Not found: ", name>>)
      [] content_type = "Channel" ->
           IF Get(chans, name).some
           THEN ShowChannels(Get(chans, name).v)
           ELSE Println(<<"Not found: ", name>>)
      [] content_type = "Bundle" ->
           IF Get(bunds, name).some
           THEN ShowBundles(Get(bunds, name).v)
           ELSE Println(<<"Not found: ", name>>)
      [] OTHER -> Println(<<"Unsupported content type">>)

show_handler(content_type, name, pkgs, chans, bunds) ==
    CASE content_type = "Package" ->
           IF Get(pkgs, name).some
           THEN ShowPackage(Get(pkgs, name).v)
           ELSE <<>>
      [] content_type = "Channel" ->
           IF Get(chans, name).some
           THEN ShowChannels(Get(chans, name).v)
           ELSE <<>>
      [] content_type = "Bundle" ->
           IF Get(bunds, name).some
           THEN ShowBundles(Get(bunds, name).v)
           ELSE <<>>
      [] OTHER -> Println(<<"Unsupported content type">>)

\* match cli.command { List => list_handler(..), Show => show_handler(..) }
Dispatch(command) ==
    IF command.command = "List"
    THEN list_handler(command.content_type, packages, channels, bundles)
    ELSE show_handler(command.content_type, command.name, packages, channels, bundles)

\* The grouping loop is over: the command is dispatched to its handler and
\* main returns Ok(()).  The command line was parsed when main began; it is
\* not looked at before this match, and its value is drawn here.
Query ==
    /\ pc = "group"
    /\ gi = Len(entries)
    /\ \E command \in Commands :
          /\ cli' = Some(command)
          /\ stdout' = stdout \o Dispatch(command)
    /\ calls' = calls + 1
    /\ pc' = "done"
    /\ exit' = Some(ExitSuccess)
    /\ UNCHANGED <<readResult, content, di, entries, stderr, gi, packages, channels,
                   bundles, seed, out2>>

Next ==
    \/ ReadFile
    \/ ReadFail
    \/ DecodeDocument
    \/ Collect
    \/ GroupEntry
    \/ Query

Spec == Init /\ [][Next]_vars

(***************************************************************************)
(* The handlers called twice with the same arguments on the same maps:     *)
(* what the first call writes is kept in stdout, what the second writes in *)
(* out2.                                                                   *)
(***************************************************************************)
\* Mutant: the handler takes the maps by value and leaves them drained.
CallHandler_Drain ==
    /\ pc = "group"
    /\ gi = Len(entries)
    /\ calls < 2
    /\ IF calls = 0
       THEN \E command \in Commands :
               /\ cli' = Some(command)
               /\ stdout' = stdout \o Dispatch(command)
               /\ out2' = out2
       ELSE /\ cli' = cli
            /\ stdout' = stdout
            /\ out2' = out2 \o Dispatch(cli.v)
    /\ calls' = calls + 1
    /\ packages' = EmptyMap
    /\ channels' = EmptyMap
    /\ bundles' = EmptyMap
    /\ UNCHANGED <<pc, readResult, content, di, entries, stderr, gi, seed, exit>>

CallHandler ==
    /\ pc = "group"
    /\ gi = Len(entries)
    /\ calls < 2
    /\ IF calls = 0
       THEN \E command \in Commands :
               /\ cli' = Some(command)
               /\ stdout' = stdout \o Dispatch(command)
               /\ out2' = out2
       ELSE /\ cli' = cli
            /\ stdout' = stdout
            /\ out2' = out2 \o Dispatch(cli.v)
    /\ calls' = calls + 1
    /\ UNCHANGED <<pc, readResult, content, di, entries, stderr, gi, packages, channels,
                   bundles, seed, exit>>

Return ==
    /\ pc = "group"
    /\ calls = 2
    /\ pc' = "done"
    /\ exit' = Some(ExitSuccess)
    /\ UNCHANGED <<cli, readResult, content, di, entries, stderr, gi, packages, channels,
                   bundles, seed, stdout, calls, out2>>

NextTwice ==
    \/ ReadFile
    \/ ReadFail
    \/ DecodeDocument
    \/ Collect
    \/ GroupEntry
    \/ CallHandler
    \/ Return

SpecTwice == Init /\ [][NextTwice]_vars

(***************************************************************************)
(* Vocabulary of the properties.                                           *)
(***************************************************************************)
StripDoc(e) == [f \in DOMAIN e \ {"doc"} |-> e[f]]

Lookup(m, k) == IF k \in DOMAIN m THEN m[k] ELSE <<>>

IsPackage(e) == e.variant = "OlmPackage"
IsChannel(e) == e.variant = "OpmChannel"
IsBundle(e) == e.variant = "OlmBundle"

DecodedChannelsOf(k) == SelectSeq(entries, LAMBDA e : IsChannel(e) /\ e.package = k)
DecodedBundlesOf(k) == SelectSeq(entries, LAMBDA e : IsBundle(e) /\ e.package = k)

\* The package names the decoded entries refer to, as map keys.
DecodedPackageNames == {entries[i].name : i \in {j \in 1..Len(entries) : IsPackage(entries[j])}}
ChannelPackages == {entries[i].package : i \in {j \in 1..Len(entries) : IsChannel(entries[j])}}
BundlePackages == {entries[i].package : i \in {j \in 1..Len(entries) : IsBundle(entries[j])}}
AnyKey == Names \cup DOMAIN packages \cup DOMAIN channels \cup DOMAIN bundles

\* C1: every document that fails to decode leaves one diagnostic and no
\* entry; the entries are the decodable documents, each decoded as it
\* stands, in document order; the loop visits every document, whatever
\* failed before it, and every entry collected is grouped.
C1_LoadIsFaultTolerant ==
    pc \in {"decode", "group", "done"} =>
        LET decoded == [i \in 1..di |-> Deserialize(content[i])]
            decodable == {i \in 1..di : decoded[i].ok}
        IN
        /\ Len(entries) = Cardinality(decodable)
        /\ \A j \in 1..Len(entries) :
              /\ entries[j].doc \in decodable
              /\ StripDoc(entries[j]) = decoded[entries[j].doc].v
        /\ \A j, k \in 1..Len(entries) : j < k => entries[j].doc < entries[k].doc
        /\ Len(stderr) = di - Cardinality(decodable)
        /\ (pc # "decode" => di = Len(content))
        /\ (pc = "done" => gi = Len(entries))

\* A document of unknown schema is followed by a valid one, which is decoded
\* and grouped.
C1_Witness ==
    /\ pc = "done"
    /\ \E i, j \in 1..Len(content) :
          /\ i < j
          /\ content[i].schema = YStr("olm.unknown")
          /\ \E k \in 1..Len(entries) : entries[k].doc = j
          /\ gi = Len(entries)

\* C2: an unreadable file ends the process with a non-zero status before
\* any document is decoded, any grouping built or any output written; every
\* other run that ends, ends with status zero, and a run ends nowhere else.
C2_ExitStatus ==
    /\ (readResult = "Err" <=> pc = "panicked")
    /\ (pc = "panicked" =>
            /\ exit.some /\ exit.v # 0
            /\ di = 0 /\ entries = <<>> /\ gi = 0
            /\ packages = EmptyMap /\ channels = EmptyMap /\ bundles = EmptyMap
            /\ stdout = <<>> /\ calls = 0)
    /\ (exit.some <=> pc \in {"done", "panicked"})
    /\ (pc = "done" => readResult = "Ok" /\ exit = Some(0))
    /\ (~ENABLED Next => pc \in {"done", "panicked"})

C2_Witness ==
    /\ pc = "panicked"
    /\ readResult = "Err"
    /\ exit = Some(ExitPanic)

\* C3: after the grouping pass every decoded Package is in `packages` under
\* its own name, and under every key the Vec of `channels` (of `bundles`) is
\* exactly the decoded Channels (Bundles) of that package, each once.
C3_RoundTripGrouping ==
    (pc \in {"group", "done"} /\ gi = Len(entries)) =>
        /\ \A i \in 1..Len(entries) :
              IsPackage(entries[i]) =>
                  /\ entries[i].name \in DOMAIN packages
                  /\ StripDoc(packages[entries[i].name]) = StripDoc(entries[i])
        /\ \A k \in AnyKey :
              /\ Lookup(channels, k) = DecodedChannelsOf(k)
              /\ Lookup(bundles, k) = DecodedBundlesOf(k)

\* A package with two channels, and a bundle.
C3_Witness ==
    /\ pc = "done"
    /\ \E k \in DOMAIN channels : Len(channels[k]) = 2
    /\ DOMAIN bundles # {}

\* The entry of the last decoded Package document named n.
LastPackage(n) ==
    entries[CHOOSE i \in 1..Len(entries) :
                /\ IsPackage(entries[i]) /\ entries[i].name = n
                /\ \A j \in (i + 1)..Len(entries) :
                      ~(IsPackage(entries[j]) /\ entries[j].name = n)]

\* The command the handler was called with.
IsList(ct) == cli.some /\ cli.v.command = "List" /\ cli.v.content_type = ct
IsShow(ct) == cli.some /\ cli.v.command = "Show" /\ cli.v.content_type = ct

\* One println! for each element of a sequence, in order.
ChannelBlocks(es) == Flatten([i \in 1..Len(es) |-> Println(FmtChannel(es[i]))])
BundleDumps(es) == Flatten([i \in 1..Len(es) |-> Println(DebugBundle(es[i]))])
NameLines(es) == Flatten([i \in 1..Len(es) |-> <<"- ", es[i].name, "\n">>])

\* C4: when several Package documents of one name are decoded, `packages`
\* holds for that name the last of them in document order and nothing else,
\* Show(Package, name) prints that one; `channels` and `bundles` hold no
\* Package and nothing but decode failures is written to stderr.
C4_DuplicatePackageOverwrite ==
    (pc \in {"group", "done"} /\ gi = Len(entries)) =>
        /\ DOMAIN packages = DecodedPackageNames
        /\ \A n \in DecodedPackageNames : packages[n] = LastPackage(n)
        /\ \A k \in DOMAIN channels : \A i \in 1..Len(channels[k]) : ~IsPackage(channels[k][i])
        /\ \A k \in DOMAIN bundles : \A i \in 1..Len(bundles[k]) : ~IsPackage(bundles[k][i])
        /\ Len(stderr) = Len(content) - Len(entries)
        /\ (pc = "done" /\ IsShow("Package") =>
               stdout = IF cli.v.name \in DecodedPackageNames
                        THEN Println(DebugPackage(LastPackage(cli.v.name)))
                        ELSE <<>>)

\* Two Package documents of one name were decoded and that name is shown.
C4_Witness ==
    /\ pc = "done"
    /\ IsShow("Package")
    /\ \E i, j \in 1..Len(entries) :
          /\ i < j
          /\ IsPackage(entries[i]) /\ IsPackage(entries[j])
          /\ entries[i].name = cli.v.name /\ entries[j].name = cli.v.name
          /\ packages[cli.v.name].doc = entries[j].doc
    /\ stdout # <<>>

\* C5: Show(Channel, name) prints one block for each decoded Channel whose
\* package is `name`, in input order, and nothing else; Show(Bundle, name)
\* does so for the decoded Bundles whose package is `name`.
C5_ShowIsByPackage ==
    pc = "done" =>
        /\ (IsShow("Channel") => stdout = ChannelBlocks(DecodedChannelsOf(cli.v.name)))
        /\ (IsShow("Bundle") => stdout = BundleDumps(DecodedBundlesOf(cli.v.name)))

\* A package with two channels is shown while another package has a channel too.
C5_Witness ==
    /\ pc = "done"
    /\ IsShow("Channel")
    /\ Len(DecodedChannelsOf(cli.v.name)) = 2
    /\ DecodedChannelsOf(cli.v.name)[1].name # DecodedChannelsOf(cli.v.name)[2].name
    /\ \E k \in ChannelPackages : k # cli.v.name
    /\ stdout # <<>>

\* C6: Show(Channel, n) and Show(Bundle, n) with n the name of a decoded
\* channel (bundle) that no decoded channel (bundle) has as its package
\* write nothing, report no error and the process exits zero.
C6_ShowOwnNameIsSilent ==
    pc = "done" =>
        /\ (IsShow("Channel") /\ cli.v.name \notin ChannelPackages =>
               /\ stdout = <<>>
               /\ Len(stderr) = Len(content) - Len(entries)
               /\ exit = Some(0))
        /\ (IsShow("Bundle") /\ cli.v.name \notin BundlePackages =>
               /\ stdout = <<>>
               /\ Len(stderr) = Len(content) - Len(entries)
               /\ exit = Some(0))

\* The name shown is the name of a decoded channel and of no channel's package.
C6_Witness ==
    /\ pc = "done"
    /\ IsShow("Channel")
    /\ \E i \in 1..Len(entries) : IsChannel(entries[i]) /\ entries[i].name = cli.v.name
    /\ cli.v.name \notin ChannelPackages
    /\ stdout = <<>>

\* C7: List with a singular content type and Show with a plural one write
\* the one line "Unsupported content type" and nothing else.
C7_Fallback ==
    (/\ pc = "done"
     /\ \/ \E ct \in {"Package", "Channel", "Bundle"} : IsList(ct)
        \/ \E ct \in {"Packages", "Channels", "Bundles"} : IsShow(ct))
    => stdout = <<"Unsupported content type", "\n">>

\* List(Package) on a catalog that has a package.
C7_Witness ==
    /\ pc = "done"
    /\ IsList("Package")
    /\ DOMAIN packages # {}
    /\ stdout = <<"Unsupported content type", "\n">>

Orderings(S) == {s \in [1..Cardinality(S) -> S] : Range(s) = S}

\* A header line and then, package by package in the order `ord`, the name
\* lines of the groups `group[k]`.
ListedGroups(header, ord, group) ==
    <<header, "\n">> \o Flatten([i \in 1..Len(ord) |-> NameLines(group[ord[i]])])

\* C9: List(Channels) writes "Channels:" and then one "- <name>" line for
\* each decoded Channel, the lines of one package together and in input
\* order, the packages in some order; List(Bundles) likewise; List(Packages)
\* writes "Packages:" and one line for each distinct decoded package name.
C9_ListOutput ==
    pc = "done" =>
        /\ (IsList("Channels") =>
               \E ord \in Orderings(ChannelPackages) :
                   stdout = ListedGroups("Channels:", ord,
                                         [k \in ChannelPackages |-> DecodedChannelsOf(k)]))
        /\ (IsList("Bundles") =>
               \E ord \in Orderings(BundlePackages) :
                   stdout = ListedGroups("Bundles:", ord,
                                         [k \in BundlePackages |-> DecodedBundlesOf(k)]))
        /\ (IsList("Packages") =>
               \E ord \in Orderings(DecodedPackageNames) :
                   stdout = <<"Packages:", "\n">>
                            \o Flatten([i \in 1..Len(ord) |-> <<"- ", ord[i], "\n">>]))

\* The channels of one package are listed though a channel of another
\* package lies between them in the input.
C9_Witness ==
    /\ pc = "done"
    /\ IsList("Channels")
    /\ \E i, j, k \in 1..Len(entries) :
          /\ i < j /\ j < k
          /\ IsChannel(entries[i]) /\ IsChannel(entries[j]) /\ IsChannel(entries[k])
          /\ entries[i].package = entries[k].package
          /\ entries[i].package # entries[j].package
    /\ Len(stdout) = 2 + 3 * 3

\* The positions <<key, index>> of the entries stored in a map of Vecs.
Stored(m) == UNION {{<<k, i>> : i \in 1..Len(m[k])} : k \in DOMAIN m}

\* C10: at every step of the grouping pass, and after it, the value under a
\* key of `packages` is a Package of that name, the Vec under a key of
\* `channels` (`bundles`) is not empty and holds only Channels (Bundles) of
\* that package; so List writes a line for every stored entry and Show of a
\* key that exists writes something.
C10_GroupingInvariant ==
    /\ \A k \in DOMAIN packages : IsPackage(packages[k]) /\ packages[k].name = k
    /\ \A k \in DOMAIN channels :
          /\ Len(channels[k]) >= 1
          /\ \A i \in 1..Len(channels[k]) : IsChannel(channels[k][i]) /\ channels[k][i].package = k
    /\ \A k \in DOMAIN bundles :
          /\ Len(bundles[k]) >= 1
          /\ \A i \in 1..Len(bundles[k]) : IsBundle(bundles[k][i]) /\ bundles[k][i].package = k
    /\ (pc = "done" =>
           /\ (IsList("Channels") => Len(stdout) = 2 + 3 * Cardinality(Stored(channels)))
           /\ (IsList("Bundles") => Len(stdout) = 2 + 3 * Cardinality(Stored(bundles)))
           /\ (IsShow("Package") /\ cli.v.name \in DOMAIN packages => stdout # <<>>)
           /\ (IsShow("Channel") /\ cli.v.name \in DOMAIN channels => stdout # <<>>)
           /\ (IsShow("Bundle") /\ cli.v.name \in DOMAIN bundles => stdout # <<>>))

\* The grouping pass is under way with a channel and a bundle stored.
C10_Witness ==
    /\ pc = "group"
    /\ gi < Len(entries)
    /\ DOMAIN channels # {}
    /\ DOMAIN bundles # {}

====
